---- MODULE Spec2Model ----
(***************************************************************************)
(* A model of package httptool: the process-wide lazily created HTTP       *)
(* client (GetHttpClient / SetHttpClient), the request pipeline (Request,  *)
(* Get, Post), the functional options that configure it and the log event  *)
(* it emits.  Goroutines are the processes of the model; every read or     *)
(* write of the package variable `client` is a step of its own.            *)
(***************************************************************************)
EXTENDS Integers, Sequences, FiniteSets, TLC

\* ------------------------------------------------------------------ bounds
\* Number of goroutines calling into the package concurrently.
NProcs == 2
\* Longest caller-supplied option list.
MaxOpts == 2
\* Longest time (in ticks) the server takes to answer.
MaxLat == 2
\* Most calls made on the built-in logger.
MaxCalls == 2

\* defaultRequestOptions: timeout 5 * time.Second (one tick is one second).
DefaultTimeout == 5
\* http.StatusOK
StatusOK == 200

Procs == 1..NProcs
Lats == 0..MaxLat
\* A time no modelled deadline or latency reaches: "never done".
Never == DefaultTimeout + MaxLat + 1

Min(a, b) == IF a <= b THEN a ELSE b

\* ----------------------------------------------------------------- clients
\* A *http.Client value: nil, a caller's own client, or the n-th client the
\* lazy constructor allocated.
NilClient == [kind |-> "nil", id |-> 0]
CustomClient(i) == [kind |-> "custom", id |-> i]
DefaultClient(n) == [kind |-> "default", id |-> n]
CustomClients == {CustomClient(1), CustomClient(2)}
\* What a caller may hand to SetHttpClient.
SetArgs == CustomClients \cup {NilClient}

\* ---------------------------------------------------------------- contexts
\* A context.Context, by the time (ticks after the call starts) at which its
\* Done channel closes: 0 is a context already cancelled, Never one that is
\* never cancelled and has no deadline.
Ctx(name, doneAt) == [name |-> name, doneAt |-> doneAt]
Background == Ctx("background", Never)
CtxCancelled == Ctx("cancelled", 0)
CtxDeadline2 == Ctx("deadline2", 2)

WithTimeoutParentIgnored(parent, timeout) ==
    Ctx("timeout", IF timeout <= 0 THEN 0 ELSE timeout)
WithTimeoutKeepsParentDeadline(parent, timeout) ==
    Ctx("timeout", IF parent.doneAt < Never THEN parent.doneAt
                   ELSE IF timeout <= 0 THEN 0 ELSE timeout)
\* context.WithTimeout(parent, timeout): done when the parent is done or the
\* timeout has elapsed, whichever is first.
ContextWithTimeout(parent, timeout) ==
    Ctx("timeout", Min(parent.doneAt, IF timeout <= 0 THEN 0 ELSE timeout))

\* ------------------------------------------------------------------ errors
NilErr == [kind |-> "nil", msg |-> <<>>]
Err(kind, msg) == [kind |-> kind, msg |-> msg]

Digit == <<"0", "1", "2", "3", "4", "5", "6", "7", "8", "9">>
RECURSIVE Itoa(_)
\* fmt's %d of a non-negative int: its decimal digits.
Itoa(n) == IF n < 10 THEN <<Digit[n + 1]>>
           ELSE Itoa(n \div 10) \o <<Digit[(n % 10) + 1]>>

Non200Prefix == <<"non 200 response, response code: ">>
\* errors.New(fmt.Sprintf("non 200 response, response code: %d", code))
Non200Error(code) == Err("non200", Non200Prefix \o Itoa(code))

\* ------------------------------------------------------------------ logger
\* Default: the package's built-in logger; "mock": a caller's own logger.
DefaultLogger == "Default"

\* type LogLevel: Silent LogLevel = iota + 1, Error, Warn, Info, Debug
Silent == 1
Error == 2
Warn == 3
Info == 4
Debug == 5
LogLevels == Silent..Debug

\* New(writer, config): the built-in logger, by its configured level.
New(level) == [LogLevel |-> level]
\* var Default = New(..., Config{LogLevel: Warn, Colorful: true})
Default == New(Warn)
\* LogMode: newlogger := *l; newlogger.LogLevel = level
LogMode(l, level) == [l EXCEPT !.LogLevel = level]

\* l.Printf(format+msg, ...): one line on the logger's writer, by the tag of
\* its format and the message.
Printf(out, tag, msg) == Append(out, [tag |-> tag, msg |-> msg])

\* func (l *logger) Debug / Info / Warn / Error: what the writer holds after
\* the call.
loggerDebug(l, out, msg) ==
    IF l.LogLevel >= Debug THEN Printf(out, "[debug] ", msg) ELSE out
loggerInfo(l, out, msg) ==
    IF l.LogLevel >= Info THEN Printf(out, "[info] ", msg) ELSE out
loggerWarnStrict(l, out, msg) ==
    IF l.LogLevel > Warn THEN Printf(out, "[warn] ", msg) ELSE out
loggerWarn(l, out, msg) ==
    IF l.LogLevel >= Warn THEN Printf(out, "[warn] ", msg) ELSE out
loggerError(l, out, msg) ==
    IF l.LogLevel >= Error THEN Printf(out, "[error] ", msg) ELSE out

\* ----------------------------------------------------------------- headers
\* Header names the model uses, and textproto.CanonicalMIMEHeaderKey on them.
CanonicalKeys == {"Content-Type", "X-A"}
CanonicalMIMEHeaderKey(k) == IF k = "content-type" THEN "Content-Type" ELSE k
NoHeaders == [k \in {} |-> ""]
Hdr(k, v) == [x \in {k} |-> v]
NoHeader == [k \in CanonicalKeys |-> <<>>]

\* ----------------------------------------------------------------- options
\* type requestOption struct
requestOption(ctx, timeout, data, headers, logger, slowThreshold) ==
    [ctx |-> ctx, timeout |-> timeout, data |-> data, headers |-> headers,
     logger |-> logger, slowThreshold |-> slowThreshold]

defaultRequestOptions ==
    requestOption(Background, DefaultTimeout, <<>>, NoHeaders, DefaultLogger, 0)

\* An Option value: which field it sets and the value it was built with.
Opt(k, ctx, n, data, headers, logger) ==
    [k |-> k, ctx |-> ctx, n |-> n, data |-> data, headers |-> headers,
     logger |-> logger]
WithContext(ctx) == Opt("ctx", ctx, 0, <<>>, NoHeaders, "")
WithTimeout(t) == Opt("timeout", Background, t, <<>>, NoHeaders, "")
WithHeaders(h) == Opt("headers", Background, 0, <<>>, h, "")
WithData(d) == Opt("data", Background, 0, d, NoHeaders, "")
WithLogger(l) == Opt("logger", Background, 0, <<>>, NoHeaders, l)
WithSlowThreshold(t) == Opt("slow", Background, t, <<>>, NoHeaders, "")

MergeHeadersReplace(old, new) == new
\* An element of a slice's backing array that no append has written yet.
NoOption == Opt("none", Background, 0, <<>>, NoHeaders, "")
\* WithHeaders' closure: for k, v := range headers { opts.headers[k] = v }
MergeHeaders(old, new) ==
    [k \in (DOMAIN old) \cup (DOMAIN new) |->
        IF k \in DOMAIN new THEN new[k] ELSE old[k]]

\* opt.apply(reqOpts): the closure each With* constructor returns.
apply(opt, o) ==
    CASE opt.k = "ctx" -> [o EXCEPT !.ctx = opt.ctx]
      [] opt.k = "timeout" -> [o EXCEPT !.timeout = opt.n]
      [] opt.k = "headers" -> [o EXCEPT !.headers = MergeHeaders(o.headers, opt.headers)]
      [] opt.k = "data" -> [o EXCEPT !.data = opt.data]
      [] opt.k = "logger" -> [o EXCEPT !.logger = opt.logger]
      [] opt.k = "slow" -> [o EXCEPT !.slowThreshold = opt.n]

RECURSIVE ApplyOptions(_, _)
RECURSIVE ApplyOptionsBackwards(_, _)
ApplyOptionsBackwards(options, o) ==
    IF options = <<>> THEN o
    ELSE ApplyOptionsBackwards(SubSeq(options, 1, Len(options) - 1),
                               apply(options[Len(options)], o))
\* Request's loop: for _, opt := range options { err = opt.apply(reqOpts) }
ApplyOptions(options, o) ==
    IF options = <<>> THEN o
    ELSE ApplyOptions(Tail(options), apply(Head(options), o))

\* Get: options = append(options, WithContext(ctx))
GetOptions(ctx, options) == Append(options, WithContext(ctx))

DefaultHeader == Hdr("Content-Type", "application/json")
PostOptionsCallerFirst(ctx, data, options) ==
    options \o <<WithHeaders(DefaultHeader), WithData(data), WithContext(ctx)>>
\* Post: newOptions = append(nil, WithHeaders(defaultHeader), WithData(data),
\* WithContext(ctx)); newOptions = append(newOptions, options...)
PostOptions(ctx, data, options) ==
    <<WithHeaders(DefaultHeader), WithData(data), WithContext(ctx)>> \o options

\* ------------------------------------------------------- building a request
UrlOk == "http://srv/ok"
UrlMalformed == "://srv"
\* net/http validMethod: a method is a non-empty token ("INVALID_METHOD" is
\* one, a name with a space in it is not).
ValidMethod(m) == m # "BAD METHOD"
\* url.Parse fails on a URL with no scheme before "://".
ParsesURL(u) == u # UrlMalformed

NoRequest == [method |-> "", url |-> "", body |-> <<>>, header |-> NoHeader,
              ctx |-> Background]

NewRequestErrIgnored(method, url) == NilErr
\* http.NewRequest(method, url, body): the error it returns.
NewRequestErr(method, url) ==
    IF ~ValidMethod(method) THEN Err("construct", <<"net/http: invalid method">>)
    ELSE IF ~ParsesURL(url) THEN Err("construct", <<"parse: missing protocol scheme">>)
    ELSE NilErr

\* The orders in which `range` may visit the keys of a map.
Orders(S) == {s \in [1..Cardinality(S) -> S] : \A k \in S : \E i \in DOMAIN s : s[i] = k}

RECURSIVE AddHeaders(_, _, _)
RECURSIVE SetHeaders(_, _, _)
SetHeaders(header, headers, order) ==
    IF order = <<>> THEN header
    ELSE LET k == Head(order)
             ck == CanonicalMIMEHeaderKey(k)
         IN SetHeaders([header EXCEPT ![ck] = <<headers[k]>>],
                       headers, Tail(order))
\* for key, value := range reqOpts.headers { req.Header.Add(key, value) }
\* Header.Add appends the value under the canonical form of the key.
AddHeaders(header, headers, order) ==
    IF order = <<>> THEN header
    ELSE LET k == Head(order)
             ck == CanonicalMIMEHeaderKey(k)
         IN AddHeaders([header EXCEPT ![ck] = Append(@, headers[k])],
                       headers, Tail(order))

\* Lines 61-73 of Request on success: the request that is dispatched.
BuildRequest(method, url, o, order) ==
    [method |-> method, url |-> url, body |-> o.data,
     header |-> AddHeaders(NoHeader, o.headers, order),
     ctx |-> ContextWithTimeout(o.ctx, o.timeout)]

\* -------------------------------------------------------------- the server
Statuses == {200, 201, 204, 500}
Bodies == {<<>>, <<7, 8>>}
NoResp == [status |-> 0, body |-> <<>>]

\* ------------------------------------------------------------ log severity
ClassifyAlwaysDebug(slowThreshold, dur) == "debug"
\* if reqOpts.slowThreshold > 0 && dur >= reqOpts.slowThreshold { Warn } else { Debug }
Classify(slowThreshold, dur) ==
    IF slowThreshold > 0 /\ dur >= slowThreshold THEN "warn" ELSE "debug"

LogEventAsDeferred(level, o, method, url, respBody, err, dur) ==
    [logger |-> o.logger, level |-> level,
     msg |-> IF level = "warn" THEN "HTTP_REQUEST_SLOW_LOG" ELSE "HTTP_REQUEST_DEBUG_LOG",
     form |-> IF level = "warn" THEN "bytes" ELSE "string",
     method |-> method, url |-> url, body |-> o.data, reply |-> <<>>,
     err |-> NilErr, dur |-> dur]
\* The event one logger call records.
LogEvent(level, o, method, url, respBody, err, dur) ==
    [logger |-> o.logger, level |-> level,
     msg |-> IF level = "warn" THEN "HTTP_REQUEST_SLOW_LOG" ELSE "HTTP_REQUEST_DEBUG_LOG",
     form |-> IF level = "warn" THEN "bytes" ELSE "string",
     method |-> method, url |-> url, body |-> o.data, reply |-> respBody,
     err |-> err, dur |-> dur]

\* ------------------------------------------------------------------- state
VARIABLES
    client,     \* var client *http.Client
    onceDone,   \* var once sync.Once: whether its function has run
    built,      \* how many clients the lazy constructor has allocated
    pc,         \* where each goroutine is in its call
    frame,      \* the arguments, locals and results of each goroutine's call
    anySet,     \* history: whether SetHttpClient has been called
    lastSet,    \* history: the argument of the latest SetHttpClient
    lazyAtSet,  \* history: whether once had run when that call was made
    spare,      \* the element past the length of the callers' shared options
                \* slice, in its backing array
    curLogger,  \* the built-in logger the program holds
    output,     \* the lines the built-in logger's writer has printed
    logCalls    \* history: the severity of each call on that logger and
                \* the logger's level when it was made

vars == <<client, onceDone, built, pc, frame, anySet, lastSet, lazyAtSet,
          spare, curLogger, output, logCalls>>
providerVars == <<client, onceDone, built>>
historyVars == <<anySet, lastSet, lazyAtSet>>
loggerVars == <<curLogger, output, logCalls>>

EmptyFrame ==
    [op |-> "none", entry |-> "none", method |-> "", url |-> "",
     scope |-> Background, dataArg |-> <<>>, callerOpts |-> <<>>,
     options |-> <<>>, aliased |-> FALSE, resolved |-> defaultRequestOptions,
     reqOpts |-> defaultRequestOptions,
     built |-> FALSE, req |-> NoRequest,
     setSince |-> FALSE,
     cl |-> NilClient, via |-> NilClient, sent |-> 0,
     resp |-> NoResp, lat |-> 0, read |-> 0, dur |-> 0,
     httpStatusCode |-> 0, respBody |-> <<>>, err |-> NilErr,
     logs |-> <<>>, result |-> NilClient]

Init ==
    /\ client = NilClient
    /\ onceDone = FALSE
    /\ built = 0
    /\ pc = [p \in Procs |-> "idle"]
    /\ frame = [p \in Procs |-> EmptyFrame]
    /\ anySet = FALSE
    /\ lastSet = NilClient
    /\ lazyAtSet = FALSE
    /\ spare = NoOption
    /\ curLogger = Default
    /\ output = <<>>
    /\ logCalls = <<>>

\* An unrecovered panic ends the program: nothing runs after it.
Running == \A q \in Procs : pc[q] # "panicked"

\* ------------------------------------------------------- the shared client
OnceDoWhenNil(done, cur, n) ==
    IF cur # NilClient THEN [client |-> cur, done |-> TRUE, built |-> n]
    ELSE [client |-> DefaultClient(n + 1), done |-> TRUE, built |-> n + 1]
OnceDoNoAssign(done, cur, n) ==
    [client |-> cur, done |-> TRUE, built |-> IF done THEN n ELSE n + 1]
OnceDoUnguarded(done, cur, n) ==
    [client |-> DefaultClient(n + 1), done |-> TRUE, built |-> n + 1]
\* once.Do(func() { client = &http.Client{Transport: tr} }): the function
\* runs in the first call only; later calls return without running it.
OnceDo(done, cur, n) ==
    IF done THEN [client |-> cur, done |-> TRUE, built |-> n]
    ELSE [client |-> DefaultClient(n + 1), done |-> TRUE, built |-> n + 1]

\* A caller starts GetHttpClient().
CallGetHttpClient(p) ==
    /\ Running /\ pc[p] = "idle"
    /\ pc' = [pc EXCEPT ![p] = "get_check"]
    /\ frame' = [frame EXCEPT ![p] = [EmptyFrame EXCEPT !.op = "GetHttpClient"]]
    /\ UNCHANGED <<providerVars, historyVars, spare, loggerVars>>

\* GetHttpClient returns c to the goroutine's caller: to the program, or to
\* Request at `client := GetHttpClient()`.
GetReturns(p, c) ==
    IF frame[p].op = "Request"
    THEN /\ pc' = [pc EXCEPT ![p] = "req_send"]
         /\ frame' = [frame EXCEPT ![p].cl = c]
    ELSE /\ pc' = [pc EXCEPT ![p] = "returned"]
         /\ frame' = [frame EXCEPT ![p].result = c]

HasClientNever(c) == FALSE
\* client != nil
HasClient(c) == c # NilClient

\* if client != nil
GetCheck(p) ==
    /\ Running /\ pc[p] = "get_check"
    /\ pc' = [pc EXCEPT ![p] = IF HasClient(client) THEN "get_fast" ELSE "get_once"]
    /\ UNCHANGED <<providerVars, frame, historyVars, spare, loggerVars>>

\* return client (the fast path's second read of the variable)
GetFastReturn(p) ==
    /\ Running /\ pc[p] = "get_fast"
    /\ GetReturns(p, client)
    /\ UNCHANGED <<providerVars, historyVars, spare, loggerVars>>

\* once.Do(...)
GetOnce(p) ==
    /\ Running /\ pc[p] = "get_once"
    /\ LET r == OnceDo(onceDone, client, built)
       IN /\ client' = r.client
          /\ onceDone' = r.done
          /\ built' = r.built
    /\ pc' = [pc EXCEPT ![p] = "get_ret"]
    /\ UNCHANGED <<frame, historyVars, spare, loggerVars>>

\* return client (after once.Do)
GetSlowReturn(p) ==
    /\ Running /\ pc[p] = "get_ret"
    /\ GetReturns(p, client)
    /\ UNCHANGED <<providerVars, historyVars, spare, loggerVars>>

\* Goroutine q has called GetHttpClient in its current call (directly, or
\* from Request) and not yet handed the call's result to its caller.
InOrPastGet(q) ==
    /\ pc[q] \notin {"idle", "req_prepare"}
    /\ frame[q].op = "Request" => frame[q].built

\* SetHttpClient(c), for an argument c the caller picks: client = c.  The
\* calls that began their GetHttpClient before it note (setSince, history)
\* that a SetHttpClient ran since.
SetHttpClient(p, args) ==
    /\ Running /\ pc[p] = "idle"
    /\ \E c \in args :
          /\ client' = c
          /\ lastSet' = c
    /\ anySet' = TRUE
    /\ lazyAtSet' = onceDone
    /\ frame' = [q \in Procs |->
                    IF InOrPastGet(q) THEN [frame[q] EXCEPT !.setSince = TRUE]
                    ELSE frame[q]]
    /\ UNCHANGED <<onceDone, built, pc, spare, loggerVars>>

\* ------------------------------------------------------------ the pipeline
\* A call of one of the three entry points, as the caller wrote it.
Call(entry, method, url, scope, data, options) ==
    [entry |-> entry, method |-> method, url |-> url, scope |-> scope,
     data |-> data, options |-> options, shared |-> FALSE]

\* The options slice several callers share: one option long, with room for
\* one more in its backing array (opts := make([]Option, 0, 2); opts =
\* append(opts, WithLogger(l))).
SharedOptions == <<WithLogger("mock")>>
\* A call that passes the shared slice as its options (Get(ctx, url, opts...)).
SharedCall(entry, method, url, scope, data) ==
    [Call(entry, method, url, scope, data, SharedOptions) EXCEPT !.shared = TRUE]

\* Get's append(options, WithContext(ctx)) writes in place, into the backing
\* array of the caller's slice, when that slice has room; Post appends to a
\* slice of its own.
AppendsInPlace(c) == c.entry = "Get" /\ c.shared

\* The options Request receives: the caller's own (Request), or those Get
\* and Post assemble from their arguments.
PassedOptions(c) ==
    CASE c.entry = "Request" -> c.options
      [] c.entry = "Get" -> GetOptions(c.scope, c.options)
      [] c.entry = "Post" -> PostOptions(c.scope, c.data, c.options)

\* The method Request receives.
PassedMethod(c) ==
    CASE c.entry = "Request" -> c.method
      [] c.entry = "Get" -> "GET"
      [] c.entry = "Post" -> "POST"

\* A caller starts one of the calls: Request, or Get or Post, which call
\* Request.
CallRequest(p, calls) ==
    /\ Running /\ pc[p] = "idle"
    /\ pc' = [pc EXCEPT ![p] = "req_prepare"]
    /\ \E c \in calls :
          /\ frame' = [frame EXCEPT ![p] =
                    [EmptyFrame EXCEPT !.op = "Request", !.entry = c.entry,
                                       !.method = PassedMethod(c), !.url = c.url,
                                       !.scope = c.scope, !.dataArg = c.data,
                                       !.callerOpts = c.options,
                                       !.options = PassedOptions(c),
                                       !.aliased = AppendsInPlace(c)]]
          /\ spare' = IF AppendsInPlace(c) THEN WithContext(c.scope) ELSE spare
    /\ UNCHANGED <<providerVars, historyVars, loggerVars>>

\* The options Request's loop reads: the elements of the slice it was
\* passed, as the backing array holds them when the loop runs.
RangedOptions(f, last) ==
    IF f.aliased THEN Append(f.callerOpts, last) ELSE f.options

\* Request up to `client := GetHttpClient()`: resolve the options (resolved
\* keeps reqOpts as the loop leaves it), build the request (return its error
\* if that fails), replace reqOpts.ctx by the context bounded by the timeout
\* and add the headers in the order the map yields them.
ReqPrepare(p) ==
    /\ Running /\ pc[p] = "req_prepare"
    /\ LET f == frame[p]
           options == RangedOptions(f, spare)
           o == ApplyOptions(options, defaultRequestOptions)
           e == NewRequestErr(f.method, f.url)
       IN IF e # NilErr
          THEN /\ frame' = [frame EXCEPT ![p].options = options,
                                         ![p].resolved = o, ![p].reqOpts = o,
                                         ![p].err = e]
               /\ pc' = [pc EXCEPT ![p] = "returned"]
          ELSE \E order \in Orders(DOMAIN o.headers) :
               LET req == BuildRequest(f.method, f.url, o, order)
               IN /\ frame' = [frame EXCEPT
                                 ![p].options = options,
                                 ![p].resolved = o,
                                 ![p].reqOpts = [o EXCEPT !.ctx = req.ctx],
                                 ![p].built = TRUE, ![p].req = req]
                  /\ pc' = [pc EXCEPT ![p] = "get_check"]
    /\ UNCHANGED <<providerVars, historyVars, spare, loggerVars>>

\* client.Do(req) begins: a nil *http.Client panics, any other sends the
\* request over the network.
ReqSend(p) ==
    /\ Running /\ pc[p] = "req_send"
    /\ IF frame[p].cl = NilClient
       THEN /\ pc' = [pc EXCEPT ![p] = "panicked"]
            /\ UNCHANGED frame
       ELSE /\ pc' = [pc EXCEPT ![p] = "req_wait"]
            /\ frame' = [frame EXCEPT ![p].via = frame[p].cl,
                                      ![p].sent = frame[p].sent + 1]
    /\ UNCHANGED <<providerVars, historyVars, spare, loggerVars>>

InterpretReadsFirst(status, read) ==
    IF status # StatusOK
    THEN [code |-> status, body |-> read, err |-> Non200Error(status)]
    ELSE [code |-> status, body |-> read, err |-> NilErr]
InterpretAny2xx(status, read) ==
    IF status < 200 \/ status > 299
    THEN [code |-> status, body |-> <<>>, err |-> Non200Error(status)]
    ELSE [code |-> status, body |-> read, err |-> NilErr]
\* httpStatusCode = resp.StatusCode; a status other than 200 returns the
\* error without reading the body, 200 returns what io.ReadAll read.
Interpret(status, read) ==
    IF status # StatusOK
    THEN [code |-> status, body |-> <<>>, err |-> Non200Error(status)]
    ELSE [code |-> status, body |-> read, err |-> NilErr]

ReadAllFirstByte(body, n) == SubSeq(body, 1, Min(n, 1))
ReadAllOrNothing(body, n) == IF n < Len(body) THEN <<>> ELSE body
\* What io.ReadAll returns of body when the read fails after n bytes (all of
\* it when n is its length); the read error is dropped.
ReadAll(body, n) == SubSeq(body, 1, n)

\* client.Do(req) returns an error, lat ticks after the call began: the
\* request's context is done by then (cancelled, or past its deadline), or
\* the network failed.  Request returns the error at once.
ReqDoFails(p, lats) ==
    /\ Running /\ pc[p] = "req_wait"
    /\ \E lat \in lats, neterr \in BOOLEAN :
       LET f == frame[p]
       IN /\ f.req.ctx.doneAt <= lat \/ neterr
          /\ frame' = [frame EXCEPT
                ![p].lat = lat,
                ![p].err = IF f.req.ctx.doneAt <= lat
                           THEN Err("context", <<"context done">>)
                           ELSE Err("network", <<"dial tcp: no such host">>)]
    /\ pc' = [pc EXCEPT ![p] = "returned"]
    /\ UNCHANGED <<providerVars, historyVars, spare, loggerVars>>

\* client.Do(req) returns the server's response, lat ticks after the call
\* began and before the request's context is done, and Request runs to its
\* return: the duration is taken, the log call is deferred, the status is
\* interpreted, the body read if the status is 200 (the read stops after n
\* bytes; read records how many bytes io.ReadAll took), and the
\* deferred log call runs with the results as they are at the return.
ReqResponds(p, lats, statuses, bodies) ==
    /\ Running /\ pc[p] = "req_wait"
    /\ \E lat \in lats, status \in statuses, body \in bodies :
       \E n \in 0..Len(body) :
       LET f == frame[p]
           r == Interpret(status, ReadAll(body, n))
           level == Classify(f.reqOpts.slowThreshold, lat)
       IN /\ lat < f.req.ctx.doneAt
          /\ frame' = [frame EXCEPT
              ![p].lat = lat, ![p].dur = lat,
              ![p].read = IF status = StatusOK THEN n ELSE 0,
              ![p].resp = [status |-> status, body |-> body],
              ![p].httpStatusCode = r.code,
              ![p].respBody = r.body,
              ![p].err = r.err,
              ![p].logs = Append(f.logs,
                  LogEvent(level, f.reqOpts, f.method, f.url, r.body, r.err, lat))]
    /\ pc' = [pc EXCEPT ![p] = "returned"]
    /\ UNCHANGED <<providerVars, historyVars, spare, loggerVars>>

\* The caller takes the results; the goroutine is free for its next call.
Reset(p) ==
    /\ Running /\ pc[p] = "returned"
    /\ pc' = [pc EXCEPT ![p] = "idle"]
    /\ frame' = [frame EXCEPT ![p] = EmptyFrame]
    /\ UNCHANGED <<providerVars, historyVars, spare, loggerVars>>

\* ----------------------------------------------------------- what is asked
RECURSIVE SeqsUpTo(_, _)
\* The sequences over S of length at most n.
SeqsUpTo(S, n) ==
    IF n = 0 THEN {<<>>}
    ELSE LET shorter == SeqsUpTo(S, n - 1)
         IN shorter \cup {Append(s, x) : s \in shorter, x \in S}

\* The options callers pass.
OptionAlphabet ==
    {WithContext(CtxCancelled), WithTimeout(1),
     WithHeaders(Hdr("Content-Type", "text/plain")),
     WithHeaders([k \in {"X-A", "content-type"} |->
                     IF k = "X-A" THEN "1" ELSE "text/html"]),
     WithData(<<1>>), WithLogger("mock"), WithSlowThreshold(2)}
OptionLists == SeqsUpTo(OptionAlphabet, MaxOpts)
Scopes == {Background, CtxCancelled, CtxDeadline2}

\* The calls of the pipeline specification: every entry point, well-formed
\* and malformed methods and URLs, every option list.
PipelineCalls ==
    {Call("Request", mu[1], mu[2], Background, <<>>, o) :
        mu \in {<<"GET", UrlOk>>, <<"INVALID_METHOD", UrlOk>>,
                <<"BAD METHOD", UrlOk>>, <<"GET", UrlMalformed>>},
        o \in OptionLists}
    \cup {Call("Get", "GET", UrlOk, s, <<>>, o) : s \in Scopes, o \in OptionLists}
    \cup {Call("Post", "POST", UrlOk, s, <<5>>, o) : s \in Scopes, o \in OptionLists}

\* The calls of the concurrent specification: a plain request.
PlainCalls == {Call("Request", "GET", UrlOk, Background, <<>>, <<>>)}

\* Calls of goroutines that pass one and the same options slice, each with
\* a scope of its own.
SharedCalls ==
    {SharedCall("Get", "GET", UrlOk, s, <<>>) : s \in {Background, CtxDeadline2}}
    \cup {SharedCall("Post", "POST", UrlOk, CtxCancelled, <<5>>)}

\* A step of goroutine p that calls into the package or takes a result.
Caller(p, calls, setArgs) ==
    \/ CallGetHttpClient(p)
    \/ SetHttpClient(p, setArgs)
    \/ CallRequest(p, calls)
    \/ Reset(p)

\* A step of goroutine p inside GetHttpClient.
Provider(p) ==
    \/ GetCheck(p)
    \/ GetFastReturn(p)
    \/ GetOnce(p)
    \/ GetSlowReturn(p)

\* A step of goroutine p inside Request.
Pipeline(p, lats, statuses, bodies) ==
    \/ ReqPrepare(p)
    \/ ReqSend(p)
    \/ ReqDoFails(p, lats)
    \/ ReqResponds(p, lats, statuses, bodies)

\* Any number of goroutines call GetHttpClient, SetHttpClient and Request
\* concurrently.
Next ==
    \E p \in Procs :
        \/ Caller(p, PlainCalls, SetArgs)
        \/ Provider(p)
        \/ Pipeline(p, {0}, {200}, {<<7>>})

Spec == Init /\ [][Next]_vars

\* One goroutine makes its calls one after the other.
SeqNext ==
    \/ Caller(1, PlainCalls, SetArgs)
    \/ Provider(1)
    \/ Pipeline(1, {0}, {200, 500}, {<<7>>})

SeqSpec == Init /\ [][SeqNext]_vars

\* Any number of goroutines call GetHttpClient, SetHttpClient and Request
\* concurrently, and no caller ever passes nil to SetHttpClient.
NonNilNext ==
    \E p \in Procs :
        \/ Caller(p, PlainCalls, CustomClients)
        \/ Provider(p)
        \/ Pipeline(p, {0}, {200}, {<<7>>})

NonNilSpec == Init /\ [][NonNilNext]_vars

\* One goroutine uses the pipeline with every kind of call against every
\* kind of server answer; the shared client is the lazily created one.
PipelineNext ==
    \/ CallRequest(1, PipelineCalls)
    \/ Reset(1)
    \/ Provider(1)
    \/ Pipeline(1, Lats, Statuses, Bodies)

PipelineSpec == Init /\ [][PipelineNext]_vars

\* Any number of goroutines call Get and Post concurrently, all passing the
\* same options slice.
SharedNext ==
    \E p \in Procs :
        \/ CallRequest(p, SharedCalls)
        \/ Reset(p)
        \/ Provider(p)
        \/ Pipeline(p, {0}, {200}, {<<7>>})

SharedSpec == Init /\ [][SharedNext]_vars

\* A program calls LogMode on the logger it holds (and holds the result)
\* or calls one of its four methods, for as long as the log of calls has room.
LoggerLogMode(levels) ==
    /\ \E level \in levels : curLogger' = LogMode(curLogger, level)
    /\ UNCHANGED <<providerVars, pc, frame, historyVars, spare, output, logCalls>>

Called(severity) ==
    /\ logCalls' = Append(logCalls, [severity |-> severity, at |-> curLogger.LogLevel])
    /\ UNCHANGED <<providerVars, pc, frame, historyVars, spare, curLogger>>

LoggerDebug(msg) ==
    /\ Len(logCalls) < MaxCalls
    /\ output' = loggerDebug(curLogger, output, msg)
    /\ Called(Debug)

LoggerInfo(msg) ==
    /\ Len(logCalls) < MaxCalls
    /\ output' = loggerInfo(curLogger, output, msg)
    /\ Called(Info)

LoggerWarn(msg) ==
    /\ Len(logCalls) < MaxCalls
    /\ output' = loggerWarn(curLogger, output, msg)
    /\ Called(Warn)

LoggerError(msg) ==
    /\ Len(logCalls) < MaxCalls
    /\ output' = loggerError(curLogger, output, msg)
    /\ Called(Error)

LoggerNext ==
    \/ LoggerLogMode(LogLevels)
    \/ LoggerDebug("m")
    \/ LoggerInfo("m")
    \/ LoggerWarn("m")
    \/ LoggerError("m")

LoggerSpec == Init /\ [][LoggerNext]_vars

\* ================================================================== claims
\* Goroutine p's call of Request (directly, or through Get or Post) has returned.
RequestReturned(p) == pc[p] = "returned" /\ frame[p].op = "Request"
\* Goroutine p's call of GetHttpClient has returned.
GetReturned(p) == pc[p] = "returned" /\ frame[p].op = "GetHttpClient"
\* client.Do returned a response to the call.
Responded(f) == f.resp # NoResp
\* The method or URL of the call is one http.NewRequest rejects.
Malformed(f) == ~ValidMethod(f.method) \/ ~ParsesURL(f.url)

\* The latest position in opts that satisfies Sets, 0 if none does.
LastWhere(opts, Sets(_)) ==
    LET S == {i \in 1..Len(opts) : Sets(opts[i])}
    IN IF S = {} THEN 0 ELSE CHOOSE i \in S : \A j \in S : j <= i
IsCtxOpt(o) == o.k = "ctx"
IsDataOpt(o) == o.k = "data"
SetsContentType(o) == o.k = "headers" /\ "Content-Type" \in DOMAIN o.headers

IsDigit(c) == \E i \in 1..10 : Digit[i] = c
DigitValue(c) == (CHOOSE i \in 1..10 : Digit[i] = c) - 1
RECURSIVE Atoi(_)
\* The number a sequence of decimal digits denotes.
Atoi(s) == IF s = <<>> THEN 0
           ELSE 10 * Atoi(SubSeq(s, 1, Len(s) - 1)) + DigitValue(s[Len(s)])
\* The message ends in the decimal digits of code.
EmbedsCode(msg, code) ==
    \E i \in 1..Len(msg) :
        /\ \A j \in i..Len(msg) : IsDigit(msg[j])
        /\ Atoi(SubSeq(msg, i, Len(msg))) = code

\* C1: every call of Request that has returned emitted exactly one log
\* event, whichever way it returned (construction failure, dispatch failure,
\* non-200 status, success).
C1_ExactlyOneLogOnEveryExit ==
    \A p \in Procs : RequestReturned(p) => Len(frame[p].logs) = 1

\* C2: as long as SetHttpClient has not been called, the lazy constructor
\* has run at most once, and every GetHttpClient that has returned, from
\* whichever goroutine, returned that one client.
C2_LazyInitOnce ==
    ~anySet =>
        /\ built <= 1
        /\ \A p \in Procs :
              GetReturned(p) => built = 1 /\ frame[p].result = DefaultClient(1)

\* C2 witness: no Set has happened, both goroutines found the client nil
\* before it was constructed and went to once.Do; one has returned the
\* default client and the other is about to return.
C2_Witness ==
    /\ ~anySet
    /\ GetReturned(1) /\ frame[1].result = DefaultClient(1)
    /\ pc[2] = "get_ret" /\ frame[2].op = "GetHttpClient"

\* C3 as stated: in a sequential execution, once SetHttpClient(c) has been
\* called, every GetHttpClient returns c and every Request dispatches
\* through c, for every c.
C3_SetThenGetAnyClient ==
    anySet =>
        /\ GetReturned(1) => frame[1].result = lastSet
        /\ (frame[1].op = "Request" /\ pc[1] \in {"req_wait", "returned", "panicked"}
               /\ frame[1].built)
             => frame[1].sent = 1 /\ frame[1].via = lastSet

\* C3 amended: in a sequential execution, once SetHttpClient(c) has been
\* called with a non-nil c, every GetHttpClient returns c and every Request
\* that reaches its dispatch sends through c, whether or not lazy
\* initialisation had run; after SetHttpClient(nil), GetHttpClient returns
\* nil if lazy initialisation had run before the Set and the newly
\* constructed default client if it had not.
C3_SetThenGet ==
    anySet =>
        /\ GetReturned(1) =>
              frame[1].result = IF lastSet # NilClient \/ lazyAtSet
                                THEN lastSet ELSE DefaultClient(1)
        /\ (lastSet # NilClient /\ frame[1].op = "Request"
               /\ pc[1] \in {"req_wait", "returned"} /\ frame[1].built)
             => frame[1].sent = 1 /\ frame[1].via = lastSet

\* C3 witness: a custom client was set before lazy initialisation ever ran,
\* and a request has been dispatched through it.
C3_Witness ==
    /\ anySet /\ lastSet = CustomClient(1) /\ ~lazyAtSet
    /\ RequestReturned(1) /\ frame[1].via = CustomClient(1)

\* C4: a response with a status other than 200 (201 and 204 included) makes
\* Request return that status and an error whose message embeds it; a nil
\* error is returned for status 200 only.
C4_Non200IsError ==
    \A p \in Procs :
        RequestReturned(p) =>
            LET f == frame[p]
            IN /\ (Responded(f) /\ f.resp.status # 200) =>
                     /\ f.httpStatusCode = f.resp.status
                     /\ f.err # NilErr
                     /\ EmbedsCode(f.err.msg, f.resp.status)
               /\ f.err = NilErr => (Responded(f) /\ f.resp.status = 200)

\* C4 witness: a call has returned on a 204 response.
C4_Witness ==
    /\ RequestReturned(1)
    /\ frame[1].resp.status = 204 /\ frame[1].httpStatusCode = 204
    /\ frame[1].err # NilErr

\* C5 as stated: a response with status 200 and body B makes Request return
\* exactly (200, B, nil).
C5_OkReturnsWholeBody ==
    \A p \in Procs :
        (RequestReturned(p) /\ Responded(frame[p]) /\ frame[p].resp.status = 200) =>
            /\ frame[p].httpStatusCode = 200
            /\ frame[p].respBody = frame[p].resp.body
            /\ frame[p].err = NilErr

\* C5 amended: a response with status 200 and body B makes Request return
\* (200, B', nil), where B' is what io.ReadAll read of B: B itself when the
\* read did not fail, and the bytes read before the failure when it did.
C5_OkReturnsBodyRead ==
    \A p \in Procs :
        (RequestReturned(p) /\ Responded(frame[p]) /\ frame[p].resp.status = 200) =>
            LET f == frame[p]
            IN /\ f.httpStatusCode = 200
               /\ f.err = NilErr
               /\ f.respBody = SubSeq(f.resp.body, 1, f.read)
               /\ f.read = Len(f.resp.body) => f.respBody = f.resp.body

\* C5 witness: a Post has returned a 200 response's two-byte body in full.
C5_Witness ==
    /\ RequestReturned(1) /\ frame[1].entry = "Post"
    /\ frame[1].resp = [status |-> 200, body |-> <<7, 8>>]
    /\ frame[1].read = 2 /\ frame[1].respBody = <<7, 8>>

\* C6: when the options passed to Get contain an explicit WithContext(c2),
\* the request runs under c2 (the last such option), not under Get's scope
\* argument.
C6_GetCallerContextWins ==
    \A p \in Procs :
        LET f == frame[p]
            i == LastWhere(f.callerOpts, IsCtxOpt)
        IN (f.entry = "Get" /\ f.built /\ i # 0) =>
              /\ f.resolved.ctx = f.callerOpts[i].ctx
              /\ f.req.ctx = ContextWithTimeout(f.callerOpts[i].ctx, f.resolved.timeout)

\* C7: a Post without caller options sends Content-Type: application/json
\* and the given body under the given scope; a caller's WithHeaders value for
\* the key Content-Type, WithData or WithContext takes the place of the
\* default.
C7_PostDefaultsThenCaller ==
    \A p \in Procs :
        LET f == frame[p]
            h == LastWhere(f.callerOpts, SetsContentType)
            d == LastWhere(f.callerOpts, IsDataOpt)
            c == LastWhere(f.callerOpts, IsCtxOpt)
            sent == f.req.header["Content-Type"]
        IN (f.entry = "Post" /\ f.built) =>
              /\ f.req.method = "POST"
              /\ f.callerOpts = <<>> =>
                    /\ sent = <<"application/json">>
                    /\ f.req.body = f.dataArg
                    /\ f.resolved.ctx = f.scope
              /\ h # 0 =>
                    /\ \E j \in DOMAIN sent :
                          sent[j] = f.callerOpts[h].headers["Content-Type"]
                    /\ \A j \in DOMAIN sent : sent[j] # "application/json"
              /\ f.req.body = IF d # 0 THEN f.callerOpts[d].data ELSE f.dataArg
              /\ f.resolved.ctx = IF c # 0 THEN f.callerOpts[c].ctx ELSE f.scope

\* C7 witness: a Post whose caller passed WithHeaders(Content-Type:
\* text/plain) and WithData has built a request with that header and body.
C7_Witness ==
    /\ frame[1].entry = "Post" /\ frame[1].built
    /\ frame[1].callerOpts =
          <<WithHeaders(Hdr("Content-Type", "text/plain")), WithData(<<1>>)>>
    /\ frame[1].req.header["Content-Type"] = <<"text/plain">>
    /\ frame[1].req.body = <<1>>

\* C8: a call of Request never makes more than one network call; one that
\* has returned made none if the method or URL was malformed (and returned
\* the construction error) and exactly one otherwise, also after a dispatch
\* failure or a non-200 status.
C8_AtMostOneNetworkCall ==
    \A p \in Procs :
        LET f == frame[p]
        IN /\ f.sent <= 1
           /\ RequestReturned(p) =>
                 /\ f.sent = IF Malformed(f) THEN 0 ELSE 1
                 /\ Malformed(f) => (f.err.kind = "construct" /\ ~Responded(f))

\* C8 witness: a call with a malformed method has returned its error and
\* made no network call.
C8_Witness ==
    /\ RequestReturned(1) /\ ~ValidMethod(frame[1].method)
    /\ frame[1].sent = 0 /\ frame[1].err.kind = "construct"

\* C9: a call that logs emits one event: a Warn when the slow threshold is
\* positive and the duration has reached it, a Debug otherwise; no Info or
\* Error event is ever emitted.
C9_WarnIffSlow ==
    \A p \in Procs :
        LET f == frame[p]
        IN /\ \A i \in DOMAIN f.logs : f.logs[i].level \in {"warn", "debug"}
           /\ (RequestReturned(p) /\ f.logs # <<>>) =>
                 /\ Len(f.logs) = 1
                 /\ f.logs[1].logger = f.reqOpts.logger
                 /\ f.logs[1].level =
                       IF f.reqOpts.slowThreshold > 0 /\ f.lat >= f.reqOpts.slowThreshold
                       THEN "warn" ELSE "debug"

\* C9 witness: with a threshold of 2 a response after 2 ticks was logged as
\* a Warn on the caller's logger.
C9_Witness ==
    /\ RequestReturned(1) /\ frame[1].reqOpts.slowThreshold = 2 /\ frame[1].lat = 2
    /\ Len(frame[1].logs) = 1 /\ frame[1].logs[1].level = "warn"
    /\ frame[1].logs[1].logger = "mock"

\* C10: a call whose resolved context is already cancelled when it is made
\* returns a non-nil error, the transport's context error when the request
\* was dispatched, and never a response.
C10_CancelledNeverSucceeds ==
    \A p \in Procs :
        (RequestReturned(p) /\ frame[p].resolved.ctx.doneAt = 0) =>
            /\ frame[p].err # NilErr
            /\ ~Responded(frame[p])
            /\ frame[p].built => frame[p].err.kind = "context"

\* C10 witness: a Get under a cancelled scope has returned a context error.
C10_Witness ==
    /\ RequestReturned(1) /\ frame[1].entry = "Get"
    /\ frame[1].scope = CtxCancelled /\ frame[1].resolved.ctx = CtxCancelled
    /\ frame[1].sent = 1 /\ frame[1].err.kind = "context"

\* C11: the context of the dispatched request is done at the earlier of the
\* resolved parent context's end (cancellation or deadline) and the timeout:
\* never later than either, and at one of the two; a call answered with a
\* response got it before both, and a call whose response had not arrived by
\* then returned a non-nil error.
C11_BoundedByParentAndTimeout ==
    \A p \in Procs :
        LET f == frame[p]
            parent == f.resolved.ctx
            timeout == f.resolved.timeout
        IN f.built =>
              /\ f.req.ctx.doneAt <= parent.doneAt
              /\ f.req.ctx.doneAt <= timeout
              /\ f.req.ctx.doneAt \in {parent.doneAt, timeout}
              /\ RequestReturned(p) =>
                    /\ Responded(f) => (f.lat < parent.doneAt /\ f.lat < timeout)
                    /\ (f.lat >= parent.doneAt \/ f.lat >= timeout) => f.err # NilErr

\* C11 witness: a Get under a scope whose deadline (2) is shorter than the
\* default timeout (5) was still unanswered at tick 2 and returned the
\* context's error.
C11_Witness ==
    /\ RequestReturned(1) /\ frame[1].entry = "Get"
    /\ frame[1].resolved.ctx = CtxDeadline2
    /\ frame[1].resolved.timeout = DefaultTimeout
    /\ frame[1].req.ctx.doneAt = 2
    /\ frame[1].lat = 2 /\ frame[1].err.kind = "context"

\* The header names the options of opts set, and the latest option of opts
\* that sets the name k.
HeaderNames(opts) == UNION {DOMAIN opts[i].headers : i \in DOMAIN opts}
LastSetting(opts, k) ==
    LastWhere(opts, LAMBDA o : o.k = "headers" /\ k \in DOMAIN o.headers)

\* C12: WithHeaders applications overlay: every header name set by any of the
\* options passed to Request is in the resolved headers with the value of the
\* latest option that set it, and that value is on the outgoing request
\* under the name's canonical form.
C12_HeadersOverlay ==
    \A p \in Procs :
        LET f == frame[p]
        IN f.built =>
              \A k \in HeaderNames(f.options) :
                 LET v == f.options[LastSetting(f.options, k)].headers[k]
                     sent == f.req.header[CanonicalMIMEHeaderKey(k)]
                 IN /\ k \in DOMAIN f.resolved.headers
                    /\ f.resolved.headers[k] = v
                    /\ \E j \in DOMAIN sent : sent[j] = v

\* C12 witness: a request built from two WithHeaders options with different
\* names carries both: X-A from the second and text/plain, the first's
\* Content-Type.
C12_Witness ==
    /\ frame[1].entry = "Request" /\ frame[1].built
    /\ Len(frame[1].callerOpts) = 2
    /\ frame[1].callerOpts[1] = WithHeaders(Hdr("Content-Type", "text/plain"))
    /\ DOMAIN frame[1].callerOpts[2].headers = {"X-A", "content-type"}
    /\ frame[1].req.header["X-A"] = <<"1">>
    /\ \E j \in DOMAIN frame[1].req.header["Content-Type"] :
          frame[1].req.header["Content-Type"][j] = "text/plain"

\* The positions of opts whose option sets the header name k.
Settings(opts, k) ==
    {i \in DOMAIN opts : opts[i].k = "headers" /\ k \in DOMAIN opts[i].headers}
\* The values sent under the canonical name ck.
SentValues(f, ck) == {f.req.header[ck][j] : j \in DOMAIN f.req.header[ck]}

\* C13 as stated: a header name set by two different option applications
\* accumulates: the outgoing request carries the value of each of them.
C13_SameKeyAccumulates ==
    \A p \in Procs :
        LET f == frame[p]
        IN f.built =>
              \A k \in HeaderNames(f.options) :
                 \A i \in Settings(f.options, k) :
                    f.options[i].headers[k]
                        \in SentValues(f, CanonicalMIMEHeaderKey(k))

\* C13 amended: a header name set by several option applications with the
\* same spelling is overwritten: the request carries the value of the latest
\* of them and none of the earlier values it replaced; values accumulate
\* under one canonical name only across different spellings of it, one
\* value for each spelling.
C13_SameSpellingOverwrites ==
    \A p \in Procs :
        LET f == frame[p]
        IN f.built =>
              /\ \A k \in HeaderNames(f.options) :
                    f.options[LastSetting(f.options, k)].headers[k]
                        \in SentValues(f, CanonicalMIMEHeaderKey(k))
              /\ \A ck \in CanonicalKeys :
                    LET spellings == {k \in HeaderNames(f.options) :
                                        CanonicalMIMEHeaderKey(k) = ck}
                    IN /\ Len(f.req.header[ck]) = Cardinality(spellings)
                       /\ SentValues(f, ck) =
                             {f.options[LastSetting(f.options, k)].headers[k] :
                                 k \in spellings}

\* C13 witness: a Post whose caller set Content-Type: text/plain and then
\* content-type: text/html sends both of these under Content-Type, and not
\* Post's own application/json, which text/plain replaced.
C13_Witness ==
    /\ frame[1].entry = "Post" /\ frame[1].built
    /\ Len(frame[1].callerOpts) = 2
    /\ frame[1].callerOpts[1] = WithHeaders(Hdr("Content-Type", "text/plain"))
    /\ DOMAIN frame[1].callerOpts[2].headers = {"X-A", "content-type"}
    /\ Len(frame[1].req.header["Content-Type"]) = 2
    /\ SentValues(frame[1], "Content-Type") = {"text/plain", "text/html"}

IsTimeoutOpt(o) == o.k = "timeout"
IsLoggerOpt(o) == o.k = "logger"
IsSlowOpt(o) == o.k = "slow"
\* The field of requestOption an option of kind k sets.
FieldOf(k) == IF k = "slow" THEN "slowThreshold" ELSE k
\* Request has run its option loop for goroutine p's call.
OptionsResolved(p) == frame[p].op = "Request" /\ pc[p] # "req_prepare"

\* C14: the options Request resolved are, for each scalar field, the value
\* of the last of the passed options that sets the field, and the default
\* (background context, timeout 5, empty body, default logger, threshold 0)
\* when none does; without options they are the defaults, empty headers
\* included; and along the list each option changes no field but its own.
C14_LastWriterWinsFromDefaults ==
    \A p \in Procs :
        LET f == frame[p]
            opts == f.options
            c == LastWhere(opts, IsCtxOpt)
            t == LastWhere(opts, IsTimeoutOpt)
            d == LastWhere(opts, IsDataOpt)
            l == LastWhere(opts, IsLoggerOpt)
            s == LastWhere(opts, IsSlowOpt)
        IN OptionsResolved(p) =>
              /\ f.resolved.ctx = IF c # 0 THEN opts[c].ctx ELSE Background
              /\ f.resolved.timeout = IF t # 0 THEN opts[t].n ELSE 5
              /\ f.resolved.data = IF d # 0 THEN opts[d].data ELSE <<>>
              /\ f.resolved.logger = IF l # 0 THEN opts[l].logger ELSE "Default"
              /\ f.resolved.slowThreshold = IF s # 0 THEN opts[s].n ELSE 0
              /\ opts = <<>> =>
                    /\ f.resolved.headers = NoHeaders
                    /\ f.resolved = defaultRequestOptions
              /\ \A i \in DOMAIN opts :
                    LET before == ApplyOptions(SubSeq(opts, 1, i - 1),
                                               defaultRequestOptions)
                        after == ApplyOptions(SubSeq(opts, 1, i),
                                              defaultRequestOptions)
                    IN /\ i = Len(opts) => after = f.resolved
                       /\ \A fld \in DOMAIN after \ {FieldOf(opts[i].k)} :
                             after[fld] = before[fld]

\* C14 witness: a Post under the deadline scope with WithData and WithTimeout
\* resolved the caller's body and timeout, Post's scope, and the default
\* logger and threshold.
C14_Witness ==
    /\ OptionsResolved(1) /\ frame[1].entry = "Post"
    /\ frame[1].callerOpts = <<WithData(<<1>>), WithTimeout(1)>>
    /\ frame[1].scope = CtxDeadline2
    /\ frame[1].resolved =
          requestOption(CtxDeadline2, 1, <<1>>, DefaultHeader, DefaultLogger, 0)

\* The tag the built-in logger prints for a severity.
TagOf(severity) ==
    CASE severity = Debug -> "[debug] "
      [] severity = Info -> "[info] "
      [] severity = Warn -> "[warn] "
      [] severity = Error -> "[error] "
RECURSIVE Passing(_)
\* The tags of the calls of cs made at a level at or above their severity.
Passing(cs) ==
    IF cs = <<>> THEN <<>>
    ELSE LET c == cs[Len(cs)]
             before == Passing(SubSeq(cs, 1, Len(cs) - 1))
         IN IF c.at >= c.severity THEN Append(before, TagOf(c.severity))
            ELSE before
\* The calls made on the logger while its level was level.
CallsAt(level) == {i \in DOMAIN logCalls : logCalls[i].at = level}

\* C15: the writer of the built-in logger holds one line for each call whose
\* severity the logger's level had reached when the call was made, in the
\* order of the calls, and no other line: at level Warn only the Warn and
\* Error calls, at level Debug every call, at level Silent (set through
\* LogMode) none.
C15_WritesIffLevelReachesSeverity ==
    /\ [i \in DOMAIN output |-> output[i].tag] = Passing(logCalls)
    /\ Len(output) =
          Cardinality({i \in DOMAIN logCalls :
                          logCalls[i].at >= logCalls[i].severity})
    /\ CallsAt(Silent) = DOMAIN logCalls => output = <<>>
    /\ CallsAt(Debug) = DOMAIN logCalls => Len(output) = Len(logCalls)
    /\ CallsAt(Warn) = DOMAIN logCalls =>
          Len(output) = Cardinality({i \in DOMAIN logCalls :
                                       logCalls[i].severity \in {Warn, Error}})

\* C15 witness: a Warn call on the default logger (level Warn) was written;
\* an Error call on the logger LogMode(Silent) returned was not.
C15_Witness ==
    /\ logCalls = <<[severity |-> Warn, at |-> Warn],
                    [severity |-> Error, at |-> Silent]>>
    /\ output = <<[tag |-> "[warn] ", msg |-> "m"]>>

\* C16: once SetHttpClient(c) has returned, for a non-nil c and with no
\* later Set, the shared reference is c and every GetHttpClient that started
\* after it returns c, whatever a concurrent first-time GetHttpClient does.
C16_OverrideSurvivesLazyInit ==
    (anySet /\ lastSet # NilClient) =>
        /\ client = lastSet
        /\ \A p \in Procs :
              (GetReturned(p) /\ ~frame[p].setSince) => frame[p].result = lastSet

\* C17: a call of Request that has obtained the shared client dispatches at
\* most once and through the reference it obtained, whatever is Set while it
\* is in flight; and a call that began to obtain the client after the latest
\* SetHttpClient(c), c non-nil, obtained c.
C17_OneClientPerRequest ==
    \A p \in Procs :
        LET f == frame[p]
        IN (f.op = "Request" /\ f.built
               /\ pc[p] \in {"req_send", "req_wait", "returned"}) =>
              /\ f.sent <= 1
              /\ f.sent = 1 => f.via = f.cl
              /\ (anySet /\ lastSet # NilClient /\ ~f.setSince) => f.cl = lastSet

\* C18: when concurrent Get and Post calls are passed one and the same
\* options slice (with spare capacity, and without a WithContext of the
\* caller's), each call resolves the scope it was given itself: no call
\* runs under the context of another.
C18_EachCallResolvesOwnScope ==
    \A p \in Procs :
        LET f == frame[p]
        IN (f.entry \in {"Get", "Post"} /\ OptionsResolved(p)
               /\ LastWhere(f.callerOpts, IsCtxOpt) = 0) =>
              f.resolved.ctx = f.scope

\* C19: the log event of a call that logs is emitted with the values the
\* call returns: its reply is the returned body, its err the returned error
\* (the non-200 error on a status other than 200, nil on success), and it
\* carries the method, the url and the request body of the call.
C19_LogCarriesReturnedValues ==
    \A p \in Procs :
        LET f == frame[p]
        IN (RequestReturned(p) /\ f.logs # <<>>) =>
              LET e == f.logs[Len(f.logs)]
              IN /\ e.reply = f.respBody
                 /\ e.err = f.err
                 /\ e.err = IF f.resp.status # 200
                            THEN Non200Error(f.resp.status) ELSE NilErr
                 /\ e.method = f.method /\ e.url = f.url
                 /\ e.body = f.resolved.data /\ e.body = f.req.body
                 /\ e.dur = f.dur

\* C19 witness: a Post answered with 500 returned the non-200 error and
\* logged that same error with the call's body.
C19_Witness ==
    /\ RequestReturned(1) /\ frame[1].entry = "Post"
    /\ frame[1].resp.status = 500 /\ frame[1].err = Non200Error(500)
    /\ Len(frame[1].logs) = 1
    /\ frame[1].logs[1].err = Non200Error(500)
    /\ frame[1].logs[1].method = "POST" /\ frame[1].logs[1].body = <<5>>

\* C20: when the response has status 200 and reading its body fails before
\* the end, Request returns 200, the bytes read up to the failure and a nil
\* error.
C20_ReadErrorSwallowed ==
    \A p \in Procs :
        LET f == frame[p]
        IN (RequestReturned(p) /\ Responded(f) /\ f.resp.status = 200
               /\ f.read < Len(f.resp.body)) =>
              /\ f.httpStatusCode = 200
              /\ Len(f.respBody) = f.read
              /\ \A i \in 1..f.read : f.respBody[i] = f.resp.body[i]
              /\ f.err = NilErr

\* C20 witness: the read of a two-byte body failed after its first byte
\* and Request returned (200, that byte, nil).
C20_Witness ==
    /\ RequestReturned(1)
    /\ frame[1].resp = [status |-> 200, body |-> <<7, 8>>]
    /\ frame[1].read = 1 /\ frame[1].httpStatusCode = 200
    /\ frame[1].respBody = <<7>> /\ frame[1].err = NilErr

\* C21: when SetHttpClient is never called with nil, every GetHttpClient
\* that has returned, to the program or to Request, under any interleaving
\* with other GetHttpClient and SetHttpClient calls, returned a non-nil
\* client, and no Request met a nil client at its dispatch.
C21_GetNeverNilWithoutNilSet ==
    \A p \in Procs :
        /\ GetReturned(p) => frame[p].result # NilClient
        /\ (frame[p].op = "Request" /\ pc[p] \in {"req_send", "req_wait"})
              => frame[p].cl # NilClient
        /\ pc[p] # "panicked"

\* C21 witness: goroutine 1's first-time GetHttpClient raced with a
\* SetHttpClient of a custom client, ran the constructor after it and
\* returned the (non-nil) default client.
C21_Witness ==
    /\ anySet /\ lastSet = CustomClient(1) /\ ~lazyAtSet
    /\ GetReturned(1) /\ frame[1].setSince
    /\ frame[1].result = DefaultClient(1)

\* C22: the lazy constructor runs at most once, whatever is Set; and once
\* it has run, after a SetHttpClient(nil) with no later Set the shared
\* reference is nil, no new default client is made, and every
\* GetHttpClient that started after that Set returns nil.
C22_NoRecreationAfterNilSet ==
    /\ built <= 1
    /\ (anySet /\ lastSet = NilClient /\ lazyAtSet) =>
          /\ built = 1
          /\ client = NilClient
          /\ \A p \in Procs :
                (GetReturned(p) /\ ~frame[p].setSince) =>
                    frame[p].result = NilClient

\* C22 witness: after the constructor had run, nil was Set, and a
\* GetHttpClient that started afterwards went through once.Do and returned
\* nil, with still only one client ever constructed.
C22_Witness ==
    /\ anySet /\ lastSet = NilClient /\ lazyAtSet /\ built = 1
    /\ GetReturned(1) /\ ~frame[1].setSince /\ frame[1].result = NilClient

\* C23: on a response with a status other than 200 the body is not read:
\* whatever body the server sent, Request returns an empty body with the
\* status and the error, and the reply of the log event is empty.
C23_Non200BodyNotRead ==
    \A p \in Procs :
        LET f == frame[p]
        IN (RequestReturned(p) /\ Responded(f) /\ f.resp.status # 200) =>
              /\ f.read = 0
              /\ f.respBody = <<>>
              /\ f.httpStatusCode = f.resp.status
              /\ f.err = Non200Error(f.resp.status)
              /\ Len(f.logs) = 1
              /\ f.logs[1].reply = <<>>

\* C23 witness: the server answered 500 with a two-byte body; Request
\* returned (500, empty, error) and logged an empty reply.
C23_Witness ==
    /\ RequestReturned(1)
    /\ frame[1].resp = [status |-> 500, body |-> <<7, 8>>]
    /\ frame[1].respBody = <<>> /\ frame[1].httpStatusCode = 500
    /\ frame[1].err # NilErr
    /\ Len(frame[1].logs) = 1 /\ frame[1].logs[1].reply = <<>>

====
